---- MODULE Spec2Model ----
(***************************************************************************)
(* Multi-tenant restaurant ordering backend: the tenant resolver and its   *)
(* in-memory cache (middleware/restaurantContext), the restaurant          *)
(* administration routes (routes/restaurants) and the order routes         *)
(* (routes/orders).  One HTTP request occupies one slot of `req`; a slot   *)
(* moves at the points where the handler awaits the database.             *)
(***************************************************************************)
EXTENDS Integers, Sequences, FiniteSets, TLC

(* ------------------------------ bounds -------------------------------- *)
\* concurrent HTTP requests
MaxReq == 2
\* restaurant ids the directory may hand out
MaxTenants == 2
\* clock ticks the model lets pass
MaxTicks == 2
\* order ids the store may hand out
MaxOrders == 1
\* lines of one cart
MaxCartLen == 2
\* requests, tenant mutations and database outages of one run
MaxRequests == 3
MaxMutations == 2
MaxOutages == 1
\* subdomain labels in front of a host's base name
MaxSubdomains == 1

(* --------------------------- program constants ------------------------ *)
\* cache lifetime, in clock ticks of the model (5 minutes in the source)
CACHE_DURATION == 1

Reqs == 1..MaxReq
TenantIds == 1..MaxTenants
OrderIds == 1..MaxOrders

\* Date.now() is far larger than CACHE_DURATION: a timestamp of 0 is expired
StartNow == CACHE_DURATION + 1
MaxNow == StartNow + MaxTicks

\* slugs match /^[a-z0-9-]+$/ and domains are URLs with a dot: disjoint keys
Slugs == {"a", "b"}
Domains == {"d.com"}
NoDomain == ""
Identifiers == Slugs \cup Domains
\* an identifier no restaurant ever has
Unassigned == "nobody"
Keys == Identifiers \cup {Unassigned}

NoRow == [exists |-> FALSE, slug |-> "", domain |-> NoDomain, isActive |-> FALSE]
NoRestaurant == [id |-> 0, slug |-> "", domain |-> NoDomain]
EmptyCache == [k \in Keys |-> NoRestaurant]

\* subtotal, tax, deliveryFee, total of the request body, in cents (0 = absent)
Totals(subtotal, tax, deliveryFee, total) ==
  [subtotal |-> subtotal, tax |-> tax, deliveryFee |-> deliveryFee, total |-> total]
\* cartSize is history: the number of lines of the cart the order was created from
NoOrder == [exists |-> FALSE, restaurantId |-> 0, status |-> "", cartSize |-> 0,
            orderNumber |-> 0, totals |-> Totals(0, 0, 0, 0)]

VARIABLES
  directory,         \* restaurants table: id -> row
  restaurantCache,   \* the Map: key -> cached record (NoRestaurant = no entry)
  cacheLastUpdated,  \* timestamp of the last successful full refresh
  now,               \* Date.now()
  dbUp,              \* the database answers queries
  req,               \* request slot -> position and locals of its handler
  orders,            \* orders table: id -> row
  orderItems,        \* order_items table: set of rows
  last,              \* history: the last completed operation and its outcome
  used,              \* history: requests, mutations and outages so far (bounds the run)
  call               \* one application of a pure function: its argument and result

vars == <<directory, restaurantCache, cacheLastUpdated, now, dbUp, req, orders, orderItems, last, used, call>>

Spend(what) == used' = [used EXCEPT ![what] = @ + 1]
CanRequest == used["request"] < MaxRequests
CanMutate == used["mutation"] < MaxMutations

NoCall == [fn |-> "", arg |-> <<>>, done |-> FALSE, result |-> <<>>]

(* ------------------------------ helpers ------------------------------- *)
\* the attributes a query returns for row id
Rec(id) == [id |-> id, slug |-> directory[id].slug, domain |-> directory[id].domain]

\* Restaurant.findAll({ where: { isActive: true } })
ActiveRows == {Rec(id) : id \in {i \in TenantIds : directory[i].exists /\ directory[i].isActive}}

\* Restaurant.findOne({ where: { [Op.or]: [{slug}, {domain}], isActive: true } })
FindOneRows(identifier) ==
  {r \in ActiveRows : r.slug = identifier \/ r.domain = identifier}

\* a set that stores the record under its slug only
CacheSetSlugOnly(c, r) == [k \in Keys |-> IF k = r.slug THEN r ELSE c[k]]

\* restaurantCache.set(slug, r); if (r.domain) restaurantCache.set(domain, r)
CacheSet(c, r) ==
  [k \in Keys |->
     IF k = r.slug \/ (r.domain # NoDomain /\ k = r.domain) THEN r ELSE c[k]]

RECURSIVE CacheSetAll(_, _)
CacheSetAll(c, rows) ==
  IF rows = {} THEN c
  ELSE LET r == CHOOSE x \in rows : TRUE
       IN CacheSetAll(CacheSet(c, r), rows \ {r})

\* restaurantCache.clear(); restaurants.forEach(set ...)
RebuiltCache(rows) == CacheSetAll(EmptyCache, rows)

CacheSize(c) == Cardinality({k \in Keys : c[k] # NoRestaurant})

\* Date.now() - cacheLastUpdated > CACHE_DURATION || restaurantCache.size === 0
NeedsRefresh == (now - cacheLastUpdated > CACHE_DURATION) \/ CacheSize(restaurantCache) = 0

(* --------------------------- request slots ---------------------------- *)
\* route "other": a handler that answers without awaiting; "orders": routes/orders.js.
\* twice/prev/overlap are history: the request is a second resolve of its
\* identifier (the first returned prev); a tenant mutation ran while it was in flight
IdleReq == [pc |-> "idle", route |-> "", identifier |-> "", rows |-> {}, failed |-> FALSE,
            restaurant |-> NoRestaurant, queries |-> 0,
            twice |-> FALSE, prev |-> NoRestaurant, overlap |-> FALSE,
            cart |-> <<>>, orderId |-> 0, pending |-> {}]

\* why: which return of getRestaurantFromCache produced a null, or which error
\* ended an order create in the catch block; at: when it completed;
\* validated: the answered request queried the catalog (menu items, combo types);
\* email: how sendOrderConfirmation ended for the answered request ("" = not called)
NoLast == [op |-> "", identifier |-> "", restaurant |-> NoRestaurant, why |-> "",
           queries |-> 0, twice |-> FALSE, prev |-> NoRestaurant, overlap |-> FALSE,
           at |-> 0, status |-> 0, code |-> "",
           orderId |-> 0, requested |-> "", validated |-> FALSE, email |-> ""]

\* restaurantContext after getRestaurantFromCache returned `restaurant`:
\* 404 RESTAURANT_NOT_FOUND, or req.restaurant is set and next() runs the route
AfterResolve(r, restaurant) ==
  IF restaurant = NoRestaurant \/ r.route = "other"
    THEN IdleReq
    ELSE [r EXCEPT !.pc = "ctx", !.restaurant = restaurant, !.rows = {}, !.failed = FALSE]

Outcome(r, restaurant, why) ==
  [op |-> "resolve", identifier |-> r.identifier, restaurant |-> restaurant,
   why |-> IF restaurant = NoRestaurant THEN why ELSE "",
   queries |-> r.queries, twice |-> r.twice, prev |-> r.prev, overlap |-> r.overlap,
   at |-> now,
   status |-> IF restaurant = NoRestaurant THEN 404 ELSE 0,
   code |-> IF restaurant = NoRestaurant THEN "RESTAURANT_NOT_FOUND" ELSE "",
   orderId |-> 0, requested |-> "", validated |-> FALSE, email |-> ""]

\* getRestaurantFromCache from `restaurantCache.get(identifier)` up to the
\* await of Restaurant.findOne, reading cache c: <<slot, history>>
Lookup(r, c) ==
  IF c[r.identifier] # NoRestaurant
    THEN <<AfterResolve(r, c[r.identifier]), Outcome(r, c[r.identifier], "")>>
    ELSE IF ~dbUp
      THEN <<AfterResolve(r, NoRestaurant), Outcome(r, NoRestaurant, "unreachable")>>
      ELSE <<[r EXCEPT !.pc = "querying", !.rows = FindOneRows(r.identifier),
                       !.failed = FALSE, !.queries = r.queries + 1], last>>

\* a second resolve of the identifier last resolved: no tenant mutation since
\* the first began, at most one TTL after it, and the cache has not expired
IsSecondResolve(identifier) ==
  /\ last.op = "resolve"
  /\ last.identifier = identifier
  /\ last.restaurant # NoRestaurant
  /\ ~last.overlap
  /\ now - last.at <= CACHE_DURATION
  /\ now - cacheLastUpdated <= CACHE_DURATION

\* a refresh that clears the map before it queries the directory
RefreshedCacheClearFirst(r) == IF r.failed THEN EmptyCache ELSE RebuiltCache(r.rows)

\* refreshRestaurantCache after the await of findAll: on an error the catch
\* block leaves the map as it is, otherwise clear() and set() every row
RefreshedCache(r) == IF r.failed THEN restaurantCache ELSE RebuiltCache(r.rows)
RefreshedStamp(r) == IF r.failed THEN cacheLastUpdated ELSE now

(* ------------------- extractRestaurantIdentifier ---------------------- *)
\* A string is a sequence of pieces; "." and ":" are pieces of their own and
\* no other piece contains them or "localhost" or the platform domain, so the
\* string operations of the source are sequence operations on pieces.

\* s.startsWith(t, i - 1)
OccursAt(s, t, i) == i + Len(t) - 1 <= Len(s) /\ SubSeq(s, i, i + Len(t) - 1) = t
\* s.indexOf(t) + 1 (0 = not found)
IndexOf(s, t) ==
  LET at == {i \in 1..Len(s) : OccursAt(s, t, i)}
  IN IF at = {} THEN 0 ELSE CHOOSE i \in at : \A j \in at : i <= j
\* s.includes(t)
Includes(s, t) == IndexOf(s, t) # 0
\* s.endsWith(t)
EndsWith(s, t) == Len(t) <= Len(s) /\ SubSeq(s, Len(s) - Len(t) + 1, Len(s)) = t
\* s.split(t)[0]
SplitHead(s, t) == IF Includes(s, t) THEN SubSeq(s, 1, IndexOf(s, t) - 1) ELSE s
\* s.replace(t, '')
ReplaceFirst(s, t) ==
  IF Includes(s, t)
    THEN SubSeq(s, 1, IndexOf(s, t) - 1) \o SubSeq(s, IndexOf(s, t) + Len(t), Len(s))
    ELSE s

\* process.env.PLATFORM_DOMAIN || 'yourapi.com'
platformDomain == <<"yourapi", ".", "com">>
systemSubdomains == {<<"www">>, <<"api">>, <<"admin">>, <<"app">>, <<"dashboard">>, <<"cdn">>, <<"static">>}
\* null
NoIdentifier == <<>>

extractRestaurantIdentifier(host) ==
  LET cleanHost == SplitHead(host, <<":">>)
  IN IF host = <<>> THEN NoIdentifier
     ELSE IF cleanHost = <<"localhost">> \/ cleanHost = <<"127.0.0.1">> THEN NoIdentifier
     ELSE IF EndsWith(cleanHost, <<".", "localhost">>)
       THEN LET subdomain == SplitHead(cleanHost, <<".", "localhost">>)
            IN IF subdomain \in systemSubdomains THEN NoIdentifier ELSE subdomain
     ELSE IF EndsWith(cleanHost, <<".">> \o platformDomain)
       THEN LET subdomain == ReplaceFirst(cleanHost, <<".">> \o platformDomain)
            IN IF subdomain \in systemSubdomains THEN NoIdentifier ELSE subdomain
     ELSE IF ~Includes(cleanHost, platformDomain) /\ ~Includes(cleanHost, <<"localhost">>)
       THEN cleanHost
     ELSE NoIdentifier

\* Host headers: up to MaxSubdomains labels, a base name that may carry a
\* leading word in the same label, a further suffix, a port
SubdomainLabels == {<<"pizzapalace">>, <<"www">>, <<"api">>}
RECURSIVE SubdomainPrefixes(_)
SubdomainPrefixes(n) ==
  IF n = 0 THEN {<<>>}
  ELSE SubdomainPrefixes(n - 1)
       \cup {l \o <<".">> \o rest : l \in SubdomainLabels, rest \in SubdomainPrefixes(n - 1)}
BaseNames == {<<"localhost">>, <<"127.0.0.1">>, platformDomain, <<"shop", ".", "com">>}
Hosts ==
  {<<>>} \cup
  {sub \o word \o base \o suffix \o port :
     sub \in SubdomainPrefixes(MaxSubdomains), word \in {<<>>, <<"my">>}, base \in BaseNames,
     suffix \in {<<>>, <<".", "net">>}, port \in {<<>>, <<":", "5000">>}}

\* the middleware reads the Host header and extracts the identifier
ExtractIdentifier ==
  /\ call.fn = "extractRestaurantIdentifier"
  /\ ~call.done
  /\ call' = [call EXCEPT !.done = TRUE, !.result = extractRestaurantIdentifier(call.arg)]
  /\ UNCHANGED <<directory, restaurantCache, cacheLastUpdated, now, dbUp, req, orders, orderItems, last, used>>

(* ------------------- restaurantContext middleware --------------------- *)
\* a request arrives; extractRestaurantIdentifier gave `identifier` ("" = null).
\* Runs getRestaurantFromCache up to its first await.
Request(p, route, identifier) ==
  /\ req[p].pc = "idle"
  /\ CanRequest
  /\ Spend("request")
  /\ LET second == IsSecondResolve(identifier)
         r0 == [IdleReq EXCEPT !.route = route, !.identifier = identifier,
                               !.twice = second,
                               !.prev = IF second THEN last.restaurant ELSE NoRestaurant]
         r1 == IF identifier = ""
                 THEN <<IF route = "other" THEN IdleReq ELSE [r0 EXCEPT !.pc = "ctx"],
                        [NoLast EXCEPT !.op = "resolve", !.at = now]>>
                 ELSE IF NeedsRefresh
                   THEN <<[r0 EXCEPT !.pc = "refreshing",
                                     !.rows = IF dbUp THEN ActiveRows ELSE {},
                                     !.failed = ~dbUp, !.queries = 1], last>>
                   ELSE Lookup(r0, restaurantCache)
     IN /\ req' = [req EXCEPT ![p] = r1[1]]
        /\ last' = r1[2]
  /\ UNCHANGED <<call, directory, restaurantCache, cacheLastUpdated, now, dbUp, orders, orderItems>>

\* refreshRestaurantCache resumes after Restaurant.findAll, then the lookup
RefreshDone(p) ==
  /\ req[p].pc = "refreshing"
  /\ restaurantCache' = RefreshedCache(req[p])
  /\ cacheLastUpdated' = RefreshedStamp(req[p])
  /\ LET r1 == Lookup(req[p], restaurantCache')
     IN /\ req' = [req EXCEPT ![p] = r1[1]]
        /\ last' = r1[2]
  /\ UNCHANGED <<call, directory, now, dbUp, orders, orderItems, used>>

\* getRestaurantFromCache resumes after Restaurant.findOne
PointDone(p) ==
  /\ req[p].pc = "querying"
  /\ LET found == req[p].rows
         restaurant == IF found = {} THEN NoRestaurant ELSE CHOOSE x \in found : TRUE
     IN /\ restaurantCache' = IF found = {} THEN restaurantCache
                              ELSE CacheSet(restaurantCache, restaurant)
        /\ req' = [req EXCEPT ![p] = AfterResolve(req[p], restaurant)]
        /\ last' = Outcome(req[p], restaurant, "absent")
  /\ UNCHANGED <<call, directory, cacheLastUpdated, now, dbUp, orders, orderItems, used>>

(* --------------------------- environment ------------------------------ *)
Tick ==
  /\ now < MaxNow
  /\ now' = now + 1
  /\ UNCHANGED <<call, directory, restaurantCache, cacheLastUpdated, dbUp, req, orders, orderItems, last, used>>

DbFail ==
  /\ dbUp
  /\ used["outage"] < MaxOutages
  /\ Spend("outage")
  /\ dbUp' = FALSE
  /\ UNCHANGED <<call, directory, restaurantCache, cacheLastUpdated, now, req, orders, orderItems, last>>

DbRecover ==
  /\ ~dbUp
  /\ dbUp' = TRUE
  /\ UNCHANGED <<call, directory, restaurantCache, cacheLastUpdated, now, req, orders, orderItems, last, used>>

(* ------------------- routes/restaurants.js (admin) -------------------- *)
\* clearRestaurantCache / addRestaurantToCache of the middleware module
clearRestaurantCache == EmptyCache

addRestaurantToCache(c, restaurant) ==
  IF restaurant.slug # "" THEN CacheSet(c, restaurant) ELSE c

\* history: a tenant mutation ran while the request was in flight
Mutated(r) ==
  IF r.pc = "idle" THEN r
  ELSE [r EXCEPT !.twice = FALSE, !.prev = NoRestaurant, !.overlap = TRUE]

Did(op) == [NoLast EXCEPT !.op = op, !.at = now, !.status = 200]

SlugTaken(slug, except) ==
  \E i \in TenantIds \ except : directory[i].exists /\ directory[i].slug = slug
DomainTaken(domain, except) ==
  \E i \in TenantIds \ except : directory[i].exists /\ directory[i].domain = domain

\* POST /api/restaurants: create, then addRestaurantToCache(restaurant)
CreateRestaurant(id, slug, domain, isActive) ==
  /\ dbUp
  /\ CanMutate
  /\ Spend("mutation")
  /\ ~directory[id].exists
  /\ \A i \in TenantIds : i < id => directory[i].exists
  /\ ~SlugTaken(slug, {})
  /\ domain # NoDomain => ~DomainTaken(domain, {})
  /\ directory' = [directory EXCEPT ![id] =
        [exists |-> TRUE, slug |-> slug, domain |-> domain, isActive |-> isActive]]
  /\ restaurantCache' = addRestaurantToCache(restaurantCache,
        [id |-> id, slug |-> slug, domain |-> domain])
  /\ req' = [p \in Reqs |-> Mutated(req[p])]
  /\ last' = Did("create")
  /\ UNCHANGED <<call, cacheLastUpdated, now, dbUp, orders, orderItems>>

\* PUT /api/restaurants/:id: update, then clearRestaurantCache().
\* slug "" = not sent; domain "-" = not sent, NoDomain = null; isActive "-" = not sent
UpdateRestaurant(id, slug, domain, isActive) ==
  /\ dbUp
  /\ CanMutate
  /\ Spend("mutation")
  /\ directory[id].exists
  /\ (slug # "" /\ slug # directory[id].slug) => ~SlugTaken(slug, {id})
  /\ (domain \notin {"-", NoDomain} /\ domain # directory[id].domain) => ~DomainTaken(domain, {id})
  /\ directory' = [directory EXCEPT ![id] =
        [exists |-> TRUE,
         slug |-> IF slug # "" THEN slug ELSE @.slug,
         domain |-> IF domain # "-" THEN domain ELSE @.domain,
         isActive |-> IF isActive # "-" THEN isActive = "true" ELSE @.isActive]]
  /\ restaurantCache' = clearRestaurantCache
  /\ cacheLastUpdated' = 0
  /\ req' = [p \in Reqs |-> Mutated(req[p])]
  /\ last' = Did("update")
  /\ UNCHANGED <<call, now, dbUp, orders, orderItems>>

OrderCount(id) == Cardinality({o \in OrderIds : orders[o].exists /\ orders[o].restaurantId = id})

\* what the foreign keys of the users and orders tables do when the restaurant
\* row they point to is destroyed (the schema is whatever sync() found)
ForeignKeys == {"none", "restrict", "cascade"}

\* DELETE /api/restaurants/:id?force=...: force "" = absent (default false);
\* every other value of the query string is truthy. restaurant.destroy() of a
\* row with users or orders ends as the foreign keys decide: the row goes and
\* its orders stay or go with it, or the database refuses and the catch block
\* answers 500
DeleteRestaurant(id, force, userCount, fk) ==
  /\ dbUp
  /\ CanMutate
  /\ directory[id].exists
  /\ ~((userCount > 0 \/ OrderCount(id) > 0) /\ force = "")
  /\ (userCount = 0 /\ OrderCount(id) = 0) => fk = "none"
  /\ IF force # "true" /\ fk = "restrict"
       THEN /\ last' = [NoLast EXCEPT !.op = "delete", !.at = now, !.status = 500,
                                      !.code = "SERVER_ERROR"]
            /\ UNCHANGED <<directory, restaurantCache, cacheLastUpdated, req, orders,
                           orderItems, used>>
       ELSE /\ Spend("mutation")
            /\ directory' = [directory EXCEPT ![id] =
                  IF force = "true" THEN [@ EXCEPT !.isActive = FALSE] ELSE NoRow]
            /\ restaurantCache' = clearRestaurantCache
            /\ cacheLastUpdated' = 0
            /\ req' = [p \in Reqs |-> Mutated(req[p])]
            /\ last' = Did(IF force = "true" THEN "deactivate" ELSE "delete")
            /\ IF force # "true" /\ fk = "cascade"
                 THEN /\ orders' = [o \in OrderIds |->
                                      IF orders[o].restaurantId = id THEN NoOrder ELSE orders[o]]
                      /\ orderItems' = {row \in orderItems : orders[row.orderId].restaurantId # id}
                 ELSE UNCHANGED <<orders, orderItems>>
  /\ UNCHANGED <<call, now, dbUp>>

\* POST /api/restaurants/context/refresh: clearRestaurantCache(), then await refresh
ContextRefresh(p) ==
  /\ req[p].pc = "idle"
  /\ CanRequest
  /\ Spend("request")
  /\ restaurantCache' = clearRestaurantCache
  /\ cacheLastUpdated' = 0
  /\ req' = [req EXCEPT ![p] = [IdleReq EXCEPT !.pc = "adminRefresh",
                                  !.rows = IF dbUp THEN ActiveRows ELSE {},
                                  !.failed = ~dbUp, !.queries = 1]]
  /\ UNCHANGED <<call, directory, now, dbUp, orders, orderItems, last>>

ContextRefreshDone(p) ==
  /\ req[p].pc = "adminRefresh"
  /\ restaurantCache' = RefreshedCache(req[p])
  /\ cacheLastUpdated' = RefreshedStamp(req[p])
  /\ req' = [req EXCEPT ![p] = IdleReq]
  /\ last' = Did("refresh")
  /\ UNCHANGED <<call, directory, now, dbUp, orders, orderItems, used>>

(* ------------------------- catalog (read only) ------------------------ *)
\* menu_items rows: 1 and 3 belong to restaurant 1, 2 to restaurant 2; 3 is off the menu
MenuItemIds == {1, 2, 3}
\* (prices in cents)
MenuItem == [i \in MenuItemIds |->
               [restaurantId |-> IF i = 2 THEN 2 ELSE 1, isAvailable |-> i # 3,
                price |-> IF i = 2 THEN 3 ELSE 2]]
\* combo_types rows (additionalItemPrice 0 = null); all belong to restaurant 1
ComboTypeIds == 1..7
ComboType == [c \in ComboTypeIds |->
                [restaurantId |-> 1, basePrice |-> 4,
                 additionalItemPrice |-> IF c = 7 THEN 0 ELSE 1]]

\* a cart line of the request body (menuItemId 0, quantity 0 = absent; baseChoice 0 = null);
\* price is the unit price the client declares for the line, itemName the name
\* it sends ("" = none)
Regular(menuItemId, quantity) ==
  [isCombo |-> FALSE, menuItemId |-> menuItemId, comboId |-> 0,
   selectedItems |-> <<>>, additionalItems |-> <<>>, baseChoice |-> 0,
   quantity |-> quantity, price |-> 2, itemName |-> ""]
Combo(comboId, selectedItems, additionalItems, baseChoice) ==
  [isCombo |-> TRUE, menuItemId |-> 0, comboId |-> comboId,
   selectedItems |-> selectedItems, additionalItems |-> additionalItems,
   baseChoice |-> baseChoice, quantity |-> 1, price |-> 4, itemName |-> ""]
\* the same line with a name
Named(line, name) == [line EXCEPT !.itemName = name]
\* the same line with another declared unit price
Declared(line, price) == [line EXCEPT !.price = price]

Lines == {Regular(1, 1), Regular(2, 1), Regular(3, 1), Regular(1, 0),
          Combo(3, <<1>>, <<>>, 0), Combo(3, <<>>, <<2>>, 1),
          Combo(3, <<3>>, <<>>, 0), Combo(9, <<1>>, <<>>, 0)}
Carts == UNION {[1..n -> Lines] : n \in 0..MaxCartLen}

\* a request body of POST /api/orders; headerOk: customer, order type, address
\* and payment method pass their checks
Body(headerOk, items, totals) == [headerOk |-> headerOk, items |-> items, totals |-> totals]

Range(f) == {f[i] : i \in DOMAIN f}

\* items.filter(item => !item.isCombo && item.menuItemId)
regularItems(items) == {i \in DOMAIN items : ~items[i].isCombo /\ items[i].menuItemId # 0}
\* items.filter(item => item.isCombo)
comboItems(items) == {i \in DOMAIN items : items[i].isCombo}

\* MenuItem.findAll({ where: { id: ids, isAvailable: true, restaurantId } })
AvailableInRestaurant(ids, restaurantId) ==
  {m \in MenuItemIds \cap ids : MenuItem[m].isAvailable /\ MenuItem[m].restaurantId = restaurantId}
\* MenuItem.findAll({ where: { id: ids, isAvailable: true } })
AvailableAnywhere(ids) ==
  {m \in MenuItemIds \cap ids : MenuItem[m].isAvailable}

\* menuItems.length !== menuItemIds.length (one id per regular line)
RegularItemsOk(items, restaurantId) ==
  LET idx == regularItems(items)
      ids == {items[i].menuItemId : i \in idx}
  IN idx = {} \/ Cardinality(AvailableInRestaurant(ids, restaurantId)) = Cardinality(idx)

\* the regular-item check of POST /api/orders applied to one cart under one restaurant
ValidateRegularItems ==
  /\ call.fn = "regularItems"
  /\ ~call.done
  /\ call' = [call EXCEPT !.done = TRUE,
                !.result = RegularItemsOk(call.arg.items, call.arg.restaurantId)]
  /\ UNCHANGED <<directory, restaurantCache, cacheLastUpdated, now, dbUp, req, orders, orderItems, last, used>>

\* [...selectedItems, ...additionalItems, ...(baseChoice ? [baseChoice] : [])] as a Set
uniqueSelectedItems(line) ==
  (Range(line.selectedItems) \cup Range(line.additionalItems)
     \cup (IF line.baseChoice # 0 THEN {line.baseChoice} ELSE {})) \ {0}

\* a combo check that accepts every selection
ComboItemsOkAlways(items, restaurantId) == TRUE

\* availableItems.length !== uniqueSelectedItems.length
ComboItemsOk(items, restaurantId) ==
  \A i \in comboItems(items) :
    LET u == uniqueSelectedItems(items[i])
    IN u = {} \/ Cardinality(AvailableAnywhere(u)) = Cardinality(u)

\* the first check of POST /api/orders that fails ("" = the cart is accepted);
\* the loop over combo lines checks type then items, line by line
RECURSIVE ComboVerdict(_, _, _)
ComboVerdict(items, i, restaurantId) ==
  IF i > Len(items) THEN ""
  ELSE IF ~items[i].isCombo THEN ComboVerdict(items, i + 1, restaurantId)
  ELSE IF items[i].comboId \notin ComboTypeIds THEN "COMBO_TYPE_UNAVAILABLE"
  ELSE IF ~ComboItemsOk(<<items[i]>>, restaurantId) THEN "COMBO_ITEMS_UNAVAILABLE"
  ELSE ComboVerdict(items, i + 1, restaurantId)

\* if (!subtotal || !tax || !total)
TotalsPresent(totals) == totals.subtotal # 0 /\ totals.tax # 0 /\ totals.total # 0

CartVerdict(body, restaurantId) ==
  IF ~body.headerOk \/ body.items = <<>> \/ ~TotalsPresent(body.totals)
    THEN "VALIDATION_FAILED"
  ELSE IF ~RegularItemsOk(body.items, restaurantId) THEN "ITEMS_UNAVAILABLE"
  ELSE ComboVerdict(body.items, 1, restaurantId)

(* ------------------------------ orders -------------------------------- *)

validStatuses == {"pending", "confirmed", "preparing", "ready", "completed", "cancelled"}

\* item.itemName || (menuItem ? menuItem.name : item.itemName): the line has a
\* name of its own, or its menu item is among the available items of the
\* regular lines (any restaurant)
HasName(items, i) ==
  \/ items[i].itemName # ""
  \/ items[i].menuItemId
       \in AvailableAnywhere({items[j].menuItemId : j \in regularItems(items)})

\* the order_items row written for line i of the cart: itemName is the combo
\* payload (before JSON.stringify) of a combo line, the name of any other
\* line (type "null" = no name)
OrderItemRow(orderId, items, i) ==
  [orderId |-> orderId, line |-> i, quantity |-> items[i].quantity,
   price |-> items[i].price,
   menuItemId |-> IF items[i].isCombo THEN 0 ELSE items[i].menuItemId,
   itemName |-> IF items[i].isCombo
                  THEN [type |-> "combo", comboId |-> items[i].comboId,
                        selectedItems |-> items[i].selectedItems,
                        additionalItems |-> items[i].additionalItems,
                        baseChoice |-> items[i].baseChoice]
                  ELSE [type |-> IF HasName(items, i) THEN "name" ELSE "null",
                        comboId |-> 0, selectedItems |-> <<>>,
                        additionalItems |-> <<>>, baseChoice |-> 0]]

(* --------------------- combo available items --------------------------- *)
\* every combo type reads its own combo_available_items rows
availableItemsComboIdOwn(id) == id

\* getComboWithItems: combo types 3, 4, 5, 6, 7 use the rows of combo type 3
availableItemsComboId(id) == IF id \in {3, 4, 5, 6, 7} THEN 3 ELSE id

\* ComboAvailableItems.findAll({ where: { comboTypeId }, include MenuItem
\* where isAvailable }) on a table of <<comboTypeId, menuItemId>> rows
SelectableItems(table, id) ==
  {m \in MenuItemIds : <<availableItemsComboId(id), m>> \in table /\ MenuItem[m].isAvailable}

\* the entree ids POST /api/orders accepts as the selection of a combo line
AcceptedItems(id, restaurantId) ==
  {m \in MenuItemIds :
     ComboVerdict(<<Combo(id, <<m>>, <<>>, 0)>>, 1, restaurantId) = ""}

\* the combo_available_items tables (not empty: an empty table is filled with
\* sample rows before it is read) and the pairs of combo types looked at
ComboTables == (SUBSET ({3, 4} \X MenuItemIds)) \ {{}}
ComboPairs == {3, 4, 5, 6, 7} \X {3, 4, 5, 6, 7}

\* GET /api/combos/:id for both combo types of the pair
GetComboWithItems ==
  /\ call.fn = "getComboWithItems"
  /\ ~call.done
  /\ call' = [call EXCEPT !.fn = "validate",
                !.result = [selectable |-> [i \in 1..2 |->
                                            SelectableItems(call.arg.table, call.arg.ids[i])],
                            accepted |-> <<{}, {}>>]]
  /\ UNCHANGED <<directory, restaurantCache, cacheLastUpdated, now, dbUp, req, orders, orderItems, last, used>>

\* the combo validation of POST /api/orders for a line of each combo type
ValidateCombos ==
  /\ call.fn = "validate"
  /\ ~call.done
  /\ call' = [call EXCEPT !.done = TRUE,
                !.result = [@ EXCEPT !.accepted = [i \in 1..2 |->
                                                   AcceptedItems(call.arg.ids[i], 1)]]]
  /\ UNCHANGED <<directory, restaurantCache, cacheLastUpdated, now, dbUp, req, orders, orderItems, last, used>>

(* ------------------ combo payload in order_items.item_name ------------- *)
\* the strings that occur in a payload, and their JSON string tokens
StringLiterals == {"type", "combo", "comboId", "selectedItems", "additionalItems",
                   "baseChoice", "originalName", "Dinner for Two", "7"}
JSONString(s) ==
  CASE s = "type" -> "\"type\""
    [] s = "combo" -> "\"combo\""
    [] s = "comboId" -> "\"comboId\""
    [] s = "selectedItems" -> "\"selectedItems\""
    [] s = "additionalItems" -> "\"additionalItems\""
    [] s = "baseChoice" -> "\"baseChoice\""
    [] s = "originalName" -> "\"originalName\""
    [] s = "Dinner for Two" -> "\"Dinner for Two\""
    [] s = "7" -> "\"7\""
\* the numbers that occur in a payload
MaxNumber == 9
JSONNumber(n) == ToString(n)
RECURSIVE JSONElements(_)
JSONElements(seq) ==
  IF seq = <<>> THEN <<>>
  ELSE IF Len(seq) = 1 THEN <<JSONNumber(seq[1])>>
  ELSE <<JSONNumber(seq[1]), ",">> \o JSONElements(Tail(seq))
JSONArray(seq) == <<"[">> \o JSONElements(seq) \o <<"]">>
JSONMember(key, value) == <<JSONString(key), ":">> \o value

\* a combo payload that forgets the base choice
comboDataNoBase(item) ==
  [type |-> "combo", comboId |-> item.comboId, selectedItems |-> item.selectedItems,
   additionalItems |-> item.additionalItems, baseChoice |-> 0,
   originalName |-> item.itemName]

\* const comboData = { type: 'combo', comboId, selectedItems || [],
\* additionalItems || [], baseChoice || null, originalName: item.itemName }
\* (baseChoice 0 = null, originalName "" = undefined, <<>> = [] or absent)
comboData(item) ==
  [type |-> "combo", comboId |-> item.comboId, selectedItems |-> item.selectedItems,
   additionalItems |-> item.additionalItems, baseChoice |-> item.baseChoice,
   originalName |-> item.itemName]

\* JSON.stringify(comboData) as a sequence of tokens; a member whose value is
\* undefined is left out
JSONstringify(d) ==
  <<"{">> \o JSONMember("type", <<JSONString(d.type)>>)
    \o <<",">> \o JSONMember("comboId", <<JSONNumber(d.comboId)>>)
    \o <<",">> \o JSONMember("selectedItems", JSONArray(d.selectedItems))
    \o <<",">> \o JSONMember("additionalItems", JSONArray(d.additionalItems))
    \o <<",">> \o JSONMember("baseChoice",
                    <<IF d.baseChoice = 0 THEN "null" ELSE JSONNumber(d.baseChoice)>>)
    \o (IF d.originalName = "" THEN <<>>
        ELSE <<",">> \o JSONMember("originalName", <<JSONString(d.originalName)>>))
    \o <<"}">>

IsNumberToken(tok) == \E n \in 0..MaxNumber : JSONNumber(n) = tok
NumberOf(tok) == CHOOSE n \in 0..MaxNumber : JSONNumber(n) = tok
IsStringToken(tok) == \E x \in StringLiterals : JSONString(x) = tok
StringOf(tok) == CHOOSE x \in StringLiterals : JSONString(x) = tok

\* the elements of an array from token i on, up to its closing bracket:
\* [ok, value, next]
RECURSIVE ParseElements(_, _, _)
ParseElements(tokens, i, acc) ==
  IF i > Len(tokens) THEN [ok |-> FALSE, value |-> acc, next |-> i]
  ELSE IF tokens[i] = "]" THEN [ok |-> TRUE, value |-> acc, next |-> i + 1]
  ELSE IF tokens[i] = "," THEN ParseElements(tokens, i + 1, acc)
  ELSE IF IsNumberToken(tokens[i])
    THEN ParseElements(tokens, i + 1, Append(acc, NumberOf(tokens[i])))
  ELSE [ok |-> FALSE, value |-> acc, next |-> i]

\* the value that starts at token i (null is 0)
ParseValue(tokens, i) ==
  IF i > Len(tokens) THEN [ok |-> FALSE, value |-> 0, next |-> i]
  ELSE IF tokens[i] = "[" THEN ParseElements(tokens, i + 1, <<>>)
  ELSE IF tokens[i] = "null" THEN [ok |-> TRUE, value |-> 0, next |-> i + 1]
  ELSE IF IsNumberToken(tokens[i])
    THEN [ok |-> TRUE, value |-> NumberOf(tokens[i]), next |-> i + 1]
  ELSE IF IsStringToken(tokens[i])
    THEN [ok |-> TRUE, value |-> StringOf(tokens[i]), next |-> i + 1]
  ELSE [ok |-> FALSE, value |-> 0, next |-> i]

\* the members of an object from token i on, added to acc: [ok, value]
RECURSIVE ParseMembers(_, _, _)
ParseMembers(tokens, i, acc) ==
  IF i + 2 > Len(tokens) \/ ~IsStringToken(tokens[i]) \/ tokens[i + 1] # ":"
    THEN [ok |-> FALSE, value |-> acc]
  ELSE LET v == ParseValue(tokens, i + 2)
           obj == (StringOf(tokens[i]) :> v.value) @@ acc
       IN IF ~v.ok \/ v.next > Len(tokens) THEN [ok |-> FALSE, value |-> acc]
          ELSE IF tokens[v.next] = "}" THEN [ok |-> v.next = Len(tokens), value |-> obj]
          ELSE IF tokens[v.next] = "," THEN ParseMembers(tokens, v.next + 1, obj)
          ELSE [ok |-> FALSE, value |-> acc]

\* JSON.parse of a stored item name: ok FALSE is the SyntaxError
JSONparse(text) ==
  IF Len(text) < 2 \/ text[1] # "{" THEN [ok |-> FALSE, value |-> <<>>]
  ELSE IF text = <<"{", "}">> THEN [ok |-> TRUE, value |-> <<>>]
  ELSE ParseMembers(text, 2, <<>>)

\* parseOrderItem of the e-mail service: a row whose item name parses to an
\* object of type combo is a combo, every other row is a regular item
parseOrderItem(item) ==
  LET parsed == JSONparse(item.itemName)
      isCombo == parsed.ok /\ "type" \in DOMAIN parsed.value /\ parsed.value["type"] = "combo"
  IN [isCombo |-> isCombo,
      comboData |-> IF isCombo THEN parsed.value ELSE <<>>,
      displayName |-> IF ~isCombo THEN item.itemName
                      ELSE IF "originalName" \in DOMAIN parsed.value
                        THEN <<parsed.value["originalName"]>>
                      ELSE <<>>,
      quantity |-> item.quantity, price |-> item.price]

\* lists of available menu item ids, up to n long
RECURSIVE IdLists(_)
IdLists(n) ==
  IF n = 0 THEN {<<>>}
  ELSE IdLists(n - 1) \cup {Append(l, m) : l \in IdLists(n - 1), m \in {1, 2}}
\* accepted combo lines: an existing combo type, available items
PayloadItems ==
  {Named(Combo(comboId, selectedItems, additionalItems, baseChoice), name) :
     comboId \in {3, 7}, selectedItems \in IdLists(MaxCartLen),
     additionalItems \in IdLists(MaxCartLen - 1), baseChoice \in {0, 1},
     name \in {"", "Dinner for Two", "7"}}

\* the item_name column written for a cart line: the payload for a combo, the
\* name for a regular item
StoredItemName(item) ==
  IF item.isCombo THEN JSONstringify(comboData(item)) ELSE <<item.itemName>>

\* OrderItem.create for one line: the row's item name is stored
StoreItem ==
  /\ call.fn = "OrderItem.create"
  /\ ~call.done
  /\ call' = [call EXCEPT !.fn = "parseOrderItem", !.result = StoredItemName(call.arg)]
  /\ UNCHANGED <<directory, restaurantCache, cacheLastUpdated, now, dbUp, req, orders, orderItems, last, used>>

\* the stored row is read again and parsed
ParseStored ==
  /\ call.fn = "parseOrderItem"
  /\ ~call.done
  /\ call' = [call EXCEPT !.done = TRUE,
                !.result = parseOrderItem([itemName |-> call.result,
                                           quantity |-> call.arg.quantity,
                                           price |-> call.arg.price])]
  /\ UNCHANGED <<directory, restaurantCache, cacheLastUpdated, now, dbUp, req, orders, orderItems, last, used>>

Answer(op, status, code) ==
  [NoLast EXCEPT !.op = op, !.at = now, !.status = status, !.code = code]

InContext(p) == req[p].pc = "ctx" /\ req[p].route = "orders"

\* a route that runs whether or not the request has a restaurant
HasContextAlways(p) == TRUE

\* requireRestaurantContext: req.restaurant && req.restaurantId
HasContext(p) == req[p].restaurant # NoRestaurant

\* requireRestaurantContext: no req.restaurant, 400 before the route runs
NoContext(p) ==
  /\ InContext(p)
  /\ ~HasContext(p)
  /\ req' = [req EXCEPT ![p] = IdleReq]
  /\ last' = Answer("route", 400, "RESTAURANT_CONTEXT_REQUIRED")
  /\ UNCHANGED <<call, directory, restaurantCache, cacheLastUpdated, now, dbUp, orders, orderItems, used>>

\* POST /api/orders up to and including Order.create: body checks, item and
\* combo validation, then the order row (status pending) with the totals of
\* the body and the order number of the beforeValidate hook; a number already
\* in the table fails the insert (unique: true) and ends in the catch block
CreateOrder(p, body, orderNumber) ==
  /\ InContext(p)
  /\ HasContext(p)
  /\ LET verdict == CartVerdict(body, req[p].restaurant.id)
         free == {o \in OrderIds : ~orders[o].exists}
         id == CHOOSE o \in free : \A x \in free : o <= x
         collision == \E o \in OrderIds : orders[o].exists /\ orders[o].orderNumber = orderNumber
     IN IF verdict = "VALIDATION_FAILED"
          THEN /\ req' = [req EXCEPT ![p] = IdleReq]
               /\ last' = Answer("order", 400, verdict)
               /\ UNCHANGED orders
        ELSE IF ~dbUp
          THEN /\ req' = [req EXCEPT ![p] = IdleReq]
               /\ last' = [Answer("order", 500, "SERVER_ERROR") EXCEPT !.validated = TRUE]
               /\ UNCHANGED orders
        ELSE IF verdict # ""
          THEN /\ req' = [req EXCEPT ![p] = IdleReq]
               /\ last' = [Answer("order", 400, verdict) EXCEPT !.validated = TRUE]
               /\ UNCHANGED orders
        ELSE IF collision
          THEN /\ req' = [req EXCEPT ![p] = IdleReq]
               /\ last' = [Answer("order", 500, "SERVER_ERROR")
                             EXCEPT !.validated = TRUE, !.why = "collision"]
               /\ UNCHANGED orders
        ELSE /\ free # {}
             /\ orders' = [orders EXCEPT ![id] =
                  [exists |-> TRUE, restaurantId |-> req[p].restaurant.id,
                   status |-> "pending", cartSize |-> Len(body.items),
                   orderNumber |-> orderNumber, totals |-> body.totals]]
             /\ req' = [req EXCEPT ![p] = [@ EXCEPT !.pc = "items", !.cart = body.items,
                                             !.orderId = id, !.pending = DOMAIN body.items]]
             /\ UNCHANGED last
  /\ UNCHANGED <<call, directory, restaurantCache, cacheLastUpdated, now, dbUp, orderItems, used>>

\* OrderItem.create accepts the row: quantity and itemName are allowNull: false
RowValid(row) == row.quantity # 0 /\ row.itemName.type # "null"

\* one OrderItem.create of the Promise.all settles: the row is written, or the
\* write is rejected (the other writes of the Promise.all still run)
CreateItem(p, i) ==
  /\ req[p].pc = "items"
  /\ i \in req[p].pending
  /\ LET row == OrderItemRow(req[p].orderId, req[p].cart, i)
         written == dbUp /\ RowValid(row)
     IN /\ orderItems' = IF written THEN orderItems \cup {row} ELSE orderItems
        /\ req' = [req EXCEPT ![p] = [@ EXCEPT !.pending = @ \ {i}, !.failed = @ \/ ~written]]
  /\ UNCHANGED <<call, directory, restaurantCache, cacheLastUpdated, now, dbUp, orders, last, used>>

\* the Promise.all has settled: 500 from the catch block if a write was
\* rejected, else the order is read again and sendOrderConfirmation is called
FinishCreate(p) ==
  /\ req[p].pc = "items"
  /\ req[p].pending = {}
  /\ IF req[p].failed \/ ~dbUp
       THEN /\ req' = [req EXCEPT ![p] = IdleReq]
            /\ last' = [Answer("order", 500, "SERVER_ERROR")
                          EXCEPT !.orderId = req[p].orderId, !.validated = TRUE]
       ELSE /\ req' = [req EXCEPT ![p] = [@ EXCEPT !.pc = "emailing"]]
            /\ UNCHANGED last
  /\ UNCHANGED <<call, directory, restaurantCache, cacheLastUpdated, now, dbUp, orders, orderItems, used>>

\* how sendOrderConfirmation ends: the mail is sent, skipped for want of a
\* transporter, or the error of sendMail is thrown again
EmailOutcomes == {"sent", "skipped", "failed"}

\* a failed e-mail answers 500 like any other error of the handler
StatusAfterEmailStrict(outcome) == IF outcome = "failed" THEN 500 ELSE 201

\* try { await sendOrderConfirmation } catch (emailError) { log }, then 201
StatusAfterEmail(outcome) == 201

\* the awaited sendOrderConfirmation settles and the handler answers
EmailDone(p, outcome) ==
  /\ req[p].pc = "emailing"
  /\ req' = [req EXCEPT ![p] = IdleReq]
  /\ last' = [Answer("order", StatusAfterEmail(outcome),
                     IF StatusAfterEmail(outcome) = 201 THEN "" ELSE "SERVER_ERROR")
              EXCEPT !.orderId = req[p].orderId, !.validated = TRUE, !.email = outcome]
  /\ UNCHANGED <<call, directory, restaurantCache, cacheLastUpdated, now, dbUp, orders, orderItems, used>>

\* a lookup by id alone
FindOrderAnywhere(id, restaurantId) == orders[id].exists

\* Order.findOne({ where: { id, restaurantId: req.restaurantId } })
FindOrder(id, restaurantId) == orders[id].exists /\ orders[id].restaurantId = restaurantId

OrderAnswer(op, status, code, id, requested) ==
  [Answer(op, status, code) EXCEPT !.orderId = id, !.requested = requested]

\* a save that also writes what the hooks changed
savedFieldsWithHooks == {"status", "orderNumber"}

\* the fields order.update({ status }) writes: the keys it was given
savedFields == {"status"}

\* order.update({ status }): set() puts the status on the instance, validate()
\* runs the beforeValidate hook, which puts a new order number on the instance,
\* and save() writes the fields of the update; the result is the stored row
UpdatedOrder(row, status, hookNumber) ==
  LET instance == [row EXCEPT !.status = status, !.orderNumber = hookNumber]
  IN [f \in DOMAIN row |-> IF f \in savedFields THEN instance[f] ELSE row[f]]

\* GET /api/orders/:id (mayAccess: the user is a restaurant admin or owns the order)
ReadOrder(p, id, mayAccess) ==
  /\ InContext(p)
  /\ HasContext(p)
  /\ req' = [req EXCEPT ![p] = IdleReq]
  /\ last' = IF ~dbUp THEN OrderAnswer("read", 500, "SERVER_ERROR", id, "")
             ELSE IF ~FindOrder(id, req[p].restaurant.id)
               THEN OrderAnswer("read", 404, "ORDER_NOT_FOUND", id, "")
             ELSE IF ~mayAccess THEN OrderAnswer("read", 403, "ACCESS_DENIED", id, "")
             ELSE OrderAnswer("read", 200, "", id, "")
  /\ UNCHANGED <<call, directory, restaurantCache, cacheLastUpdated, now, dbUp, orders, orderItems, used>>

\* PUT /api/orders/:id/status (isAdmin: restaurantAdminMiddleware lets the user
\* through).  What findOne reads, the row's existence and restaurant, never
\* changes, so the read and the unconditional write are one step.
UpdateStatus(p, id, status, isAdmin, hookNumber) ==
  /\ InContext(p)
  /\ HasContext(p)
  /\ req' = [req EXCEPT ![p] = IdleReq]
  /\ IF ~isAdmin
          THEN /\ last' = OrderAnswer("status", 403, "ACCESS_DENIED", id, status)
               /\ UNCHANGED orders
        ELSE IF status \notin validStatuses
          THEN /\ last' = OrderAnswer("status", 400, "INVALID_STATUS", id, status)
               /\ UNCHANGED orders
        ELSE IF ~dbUp
          THEN /\ last' = OrderAnswer("status", 500, "SERVER_ERROR", id, status)
               /\ UNCHANGED orders
        ELSE IF ~FindOrder(id, req[p].restaurant.id)
          THEN /\ last' = OrderAnswer("status", 404, "ORDER_NOT_FOUND", id, status)
               /\ UNCHANGED orders
        ELSE /\ orders' = [orders EXCEPT ![id] = UpdatedOrder(@, status, hookNumber)]
             /\ last' = OrderAnswer("status", 200, "", id, status)
  /\ UNCHANGED <<call, directory, restaurantCache, cacheLastUpdated, now, dbUp, orderItems, used>>

\* DELETE /api/orders/:id up to `await order.update` (mayAccess: the user is a
\* restaurant admin or owns the order); the status tested is the one findOne read
CancelOrder(p, id, mayAccess) ==
  /\ InContext(p)
  /\ HasContext(p)
  /\ IF ~dbUp
       THEN /\ last' = OrderAnswer("cancel", 500, "SERVER_ERROR", id, "cancelled")
            /\ req' = [req EXCEPT ![p] = IdleReq]
     ELSE IF ~FindOrder(id, req[p].restaurant.id)
       THEN /\ last' = OrderAnswer("cancel", 404, "ORDER_NOT_FOUND", id, "cancelled")
            /\ req' = [req EXCEPT ![p] = IdleReq]
     ELSE IF ~mayAccess
       THEN /\ last' = OrderAnswer("cancel", 403, "ACCESS_DENIED", id, "cancelled")
            /\ req' = [req EXCEPT ![p] = IdleReq]
     ELSE IF orders[id].status # "pending"
       THEN /\ last' = OrderAnswer("cancel", 400, "NOT_CANCELABLE", id, "cancelled")
            /\ req' = [req EXCEPT ![p] = IdleReq]
     ELSE /\ req' = [req EXCEPT ![p] = [@ EXCEPT !.pc = "cancelling", !.orderId = id]]
          /\ UNCHANGED last
  /\ UNCHANGED <<call, directory, restaurantCache, cacheLastUpdated, now, dbUp, orders, orderItems, used>>

\* order.update({ status: 'cancelled' }) of DELETE /api/orders/:id, then the answer
CancelWrite(p, hookNumber) ==
  /\ req[p].pc = "cancelling"
  /\ req' = [req EXCEPT ![p] = IdleReq]
  /\ IF dbUp
       THEN /\ orders' = [orders EXCEPT ![req[p].orderId] =
                              UpdatedOrder(@, "cancelled", hookNumber)]
            /\ last' = OrderAnswer("cancel", 200, "", req[p].orderId, "cancelled")
       ELSE /\ last' = OrderAnswer("cancel", 500, "SERVER_ERROR", req[p].orderId, "cancelled")
            /\ UNCHANGED orders
  /\ UNCHANGED <<call, directory, restaurantCache, cacheLastUpdated, now, dbUp, orderItems, used>>

(* --------------------------- specifications --------------------------- *)
\* two restaurants seeded, the first with a custom domain; cold cache
SeedDirectory ==
  [i \in TenantIds |->
     IF i = 1 THEN [exists |-> TRUE, slug |-> "a", domain |-> "d.com", isActive |-> TRUE]
     ELSE IF i = 2 THEN [exists |-> TRUE, slug |-> "b", domain |-> NoDomain, isActive |-> TRUE]
     ELSE NoRow]

Init ==
  /\ directory = SeedDirectory
  /\ restaurantCache = EmptyCache
  /\ cacheLastUpdated = 0
  /\ now = StartNow
  /\ dbUp = TRUE
  /\ req = [p \in Reqs |-> IdleReq]
  /\ orders = [o \in OrderIds |-> NoOrder]
  /\ orderItems = {}
  /\ last = NoLast
  /\ used = [w \in {"request", "mutation", "outage"} |-> 0]
  /\ call = NoCall

\* the resolver under administration of the directory (database reachable)
TenantsNext ==
  \/ \E p \in Reqs, identifier \in Keys \cup {""} : Request(p, "other", identifier)
  \/ \E p \in Reqs : RefreshDone(p)
  \/ \E p \in Reqs : PointDone(p)
  \/ \E p \in Reqs : ContextRefresh(p)
  \/ \E p \in Reqs : ContextRefreshDone(p)
  \/ \E id \in TenantIds, slug \in Slugs, domain \in Domains \cup {NoDomain}, isActive \in BOOLEAN :
        CreateRestaurant(id, slug, domain, isActive)
  \/ \E id \in TenantIds, slug \in Slugs \cup {""}, domain \in Domains \cup {NoDomain, "-"},
        isActive \in {"true", "false", "-"} : UpdateRestaurant(id, slug, domain, isActive)
  \/ \E id \in TenantIds, force \in {"", "true", "false"}, userCount \in {0, 1},
        fk \in ForeignKeys : DeleteRestaurant(id, force, userCount, fk)

SpecTenants == Init /\ [][TenantsNext]_vars

\* the resolver while restaurants are deactivated (DELETE ...?force=true), the
\* database reachable and the clock running. A handler that awaits the
\* database is resumed when the answer arrives, and time passes
DeactivationNext ==
  \/ \E p \in Reqs, identifier \in Identifiers : Request(p, "other", identifier)
  \/ \E p \in Reqs : RefreshDone(p)
  \/ \E p \in Reqs : PointDone(p)
  \/ Tick
  \/ \E id \in TenantIds, userCount \in {0, 1} : DeleteRestaurant(id, "true", userCount, "none")

SpecDeactivation ==
  /\ Init
  /\ [][DeactivationNext]_vars
  /\ WF_vars(Tick)
  /\ \A p \in Reqs : WF_vars(RefreshDone(p)) /\ WF_vars(PointDone(p))

\* the resolver over a fixed directory with a clock and database outages
ResolverNext ==
  \/ \E p \in Reqs, identifier \in Keys \cup {""} : Request(p, "other", identifier)
  \/ \E p \in Reqs : RefreshDone(p)
  \/ \E p \in Reqs : PointDone(p)
  \/ \E p \in Reqs : ContextRefresh(p)
  \/ \E p \in Reqs : ContextRefreshDone(p)
  \/ Tick
  \/ DbFail
  \/ DbRecover

SpecResolver == Init /\ [][ResolverNext]_vars

\* the order routes behind the resolver, over a fixed directory
\* the bodies sent to POST /api/orders: every cart with one set of totals, one
\* body that fails the customer checks, one with a delivery fee on top of the
\* total, one without tax, one with a declared price below the menu price
OrderBodies ==
  {Body(TRUE, items, Totals(2, 1, 0, 3)) : items \in Carts}
    \cup {Body(FALSE, <<Regular(1, 1)>>, Totals(2, 1, 0, 3))}
    \cup {Body(TRUE, <<Regular(1, 1)>>, totals) : totals \in {Totals(2, 1, 1, 3), Totals(2, 0, 0, 2)}}
    \cup {Body(TRUE, <<Declared(Regular(1, 1), 1)>>, Totals(1, 1, 0, 2))}
\* the order numbers the beforeValidate hook can produce (timestamp suffix and
\* random pad): as many as there are orders, so that two creates can draw the same
OrderNumbers == 1..MaxOrders

OrdersNext ==
  \/ \E p \in Reqs, identifier \in Slugs \cup {Unassigned, ""} : Request(p, "orders", identifier)
  \/ \E p \in Reqs : RefreshDone(p)
  \/ \E p \in Reqs : PointDone(p)
  \/ \E p \in Reqs : NoContext(p)
  \/ \E p \in Reqs, body \in OrderBodies, orderNumber \in OrderNumbers :
        CreateOrder(p, body, orderNumber)
  \/ \E p \in Reqs, i \in 1..MaxCartLen : CreateItem(p, i)
  \/ \E p \in Reqs : FinishCreate(p)
  \/ \E p \in Reqs, outcome \in EmailOutcomes : EmailDone(p, outcome)
  \/ \E p \in Reqs, id \in OrderIds, status \in validStatuses \cup {"bogus"}, isAdmin \in BOOLEAN,
        hookNumber \in OrderNumbers : UpdateStatus(p, id, status, isAdmin, hookNumber)
  \/ \E p \in Reqs, id \in OrderIds, mayAccess \in BOOLEAN : CancelOrder(p, id, mayAccess)
  \/ \E p \in Reqs, hookNumber \in OrderNumbers : CancelWrite(p, hookNumber)

SpecOrders == Init /\ [][OrdersNext]_vars

\* the order numbers the hook can put on an instance that is updated: those of
\* the table and one more
HookNumbers == 1..(MaxOrders + 1)

\* orders of both restaurants are placed, read, moved on and cancelled
LifecycleNext ==
  \/ \E p \in Reqs, identifier \in Slugs : Request(p, "orders", identifier)
  \/ \E p \in Reqs : RefreshDone(p)
  \/ \E p \in Reqs, items \in {<<Regular(1, 1)>>, <<Regular(2, 1)>>,
                                 <<Named(Regular(0, 1), "Dinner for Two")>>},
        orderNumber \in OrderNumbers :
        CreateOrder(p, Body(TRUE, items, Totals(2, 1, 0, 3)), orderNumber)
  \/ \E p \in Reqs, i \in 1..MaxCartLen : CreateItem(p, i)
  \/ \E p \in Reqs : FinishCreate(p)
  \/ \E p \in Reqs : EmailDone(p, "sent")
  \/ \E p \in Reqs, id \in OrderIds, mayAccess \in BOOLEAN : ReadOrder(p, id, mayAccess)
  \/ \E p \in Reqs, id \in OrderIds, status \in validStatuses \cup {"bogus"}, isAdmin \in BOOLEAN,
        hookNumber \in HookNumbers : UpdateStatus(p, id, status, isAdmin, hookNumber)
  \/ \E p \in Reqs, id \in OrderIds, mayAccess \in BOOLEAN : CancelOrder(p, id, mayAccess)
  \/ \E p \in Reqs, hookNumber \in HookNumbers : CancelWrite(p, hookNumber)

SpecLifecycle == Init /\ [][LifecycleNext]_vars

\* orders are placed with restaurant "a" while restaurants are deleted
RemovalNext ==
  \/ \E p \in Reqs : Request(p, "orders", "a")
  \/ \E p \in Reqs : RefreshDone(p)
  \/ \E p \in Reqs, items \in {<<Regular(1, 1)>>, <<Combo(3, <<1>>, <<>>, 0)>>} :
        CreateOrder(p, Body(TRUE, items, Totals(2, 1, 0, 3)), 1)
  \/ \E p \in Reqs, i \in 1..MaxCartLen : CreateItem(p, i)
  \/ \E p \in Reqs : FinishCreate(p)
  \/ \E p \in Reqs, outcome \in EmailOutcomes : EmailDone(p, outcome)
  \/ \E id \in TenantIds, force \in {"", "true", "false"}, userCount \in {0, 1},
        fk \in ForeignKeys : DeleteRestaurant(id, force, userCount, fk)

SpecRemoval == Init /\ [][RemovalNext]_vars

\* extractRestaurantIdentifier applied to one Host header
HostsInit ==
  /\ directory = SeedDirectory
  /\ restaurantCache = EmptyCache
  /\ cacheLastUpdated = 0
  /\ now = StartNow
  /\ dbUp = TRUE
  /\ req = [p \in Reqs |-> IdleReq]
  /\ orders = [o \in OrderIds |-> NoOrder]
  /\ orderItems = {}
  /\ last = NoLast
  /\ used = [w \in {"request", "mutation", "outage"} |-> 0]
  /\ call \in {[NoCall EXCEPT !.fn = "extractRestaurantIdentifier", !.arg = h] : h \in Hosts}

HostsNext == ExtractIdentifier

SpecHosts == HostsInit /\ [][HostsNext]_vars

\* one cart is validated under one restaurant
RegularInit ==
  /\ directory = SeedDirectory
  /\ restaurantCache = EmptyCache
  /\ cacheLastUpdated = 0
  /\ now = StartNow
  /\ dbUp = TRUE
  /\ req = [p \in Reqs |-> IdleReq]
  /\ orders = [o \in OrderIds |-> NoOrder]
  /\ orderItems = {}
  /\ last = NoLast
  /\ used = [w \in {"request", "mutation", "outage"} |-> 0]
  /\ call \in {[NoCall EXCEPT !.fn = "regularItems",
                               !.arg = [items |-> items, restaurantId |-> restaurantId]] :
                 items \in Carts, restaurantId \in TenantIds}

RegularNext == ValidateRegularItems

SpecRegular == RegularInit /\ [][RegularNext]_vars

\* a combo line, or a regular line, is stored and read back
PayloadInit ==
  /\ directory = SeedDirectory
  /\ restaurantCache = EmptyCache
  /\ cacheLastUpdated = 0
  /\ now = StartNow
  /\ dbUp = TRUE
  /\ req = [p \in Reqs |-> IdleReq]
  /\ orders = [o \in OrderIds |-> NoOrder]
  /\ orderItems = {}
  /\ last = NoLast
  /\ used = [w \in {"request", "mutation", "outage"} |-> 0]
  /\ call \in {[NoCall EXCEPT !.fn = "OrderItem.create", !.arg = item] :
                 item \in PayloadItems \cup {Named(Regular(1, 1), "Dinner for Two")}}

PayloadNext == StoreItem \/ ParseStored

SpecPayload == PayloadInit /\ [][PayloadNext]_vars

\* two combo types of the group are looked up and validated
CombosInit ==
  /\ directory = SeedDirectory
  /\ restaurantCache = EmptyCache
  /\ cacheLastUpdated = 0
  /\ now = StartNow
  /\ dbUp = TRUE
  /\ req = [p \in Reqs |-> IdleReq]
  /\ orders = [o \in OrderIds |-> NoOrder]
  /\ orderItems = {}
  /\ last = NoLast
  /\ used = [w \in {"request", "mutation", "outage"} |-> 0]
  /\ call \in {[NoCall EXCEPT !.fn = "getComboWithItems",
                               !.arg = [table |-> table, ids |-> ids]] :
                 table \in ComboTables, ids \in ComboPairs}

CombosNext == GetComboWithItems \/ ValidateCombos

SpecCombos == CombosInit /\ [][CombosNext]_vars

(* ================== properties: host to identifier ==================== *)
\* the host without its port, and what precedes `tail` in it
WithoutPort(host) == SplitHead(host, <<":">>)
Before(h, tail) == SubSeq(h, 1, Len(h) - Len(tail))
FirstLabel(h) == SplitHead(h, <<".">>)

\* the identifiers the extraction rule allows for a host: none for an empty
\* host, a bare loopback host or a reserved subdomain; the name in front of
\* .localhost or of the platform domain; the whole host for a host outside the
\* platform domain.  Where the rule is silent (the bare platform domain, a
\* reserved first label in a longer subdomain or outside the platform) both
\* readings are allowed.
AllowedIdentifiers(host) ==
  LET h == WithoutPort(host)
      Under(tail) ==
        LET name == Before(h, tail)
        IN IF name \in systemSubdomains THEN {NoIdentifier}
           ELSE IF FirstLabel(name) \in systemSubdomains THEN {NoIdentifier, name}
           ELSE {name}
  IN IF h = <<>> \/ h = <<"localhost">> \/ h = <<"127.0.0.1">> THEN {NoIdentifier}
     ELSE IF EndsWith(h, <<".", "localhost">>) THEN Under(<<".", "localhost">>)
     ELSE IF EndsWith(h, <<".">> \o platformDomain) THEN Under(<<".">> \o platformDomain)
     ELSE IF h = platformDomain THEN {NoIdentifier, h}
     ELSE IF FirstLabel(h) \in systemSubdomains THEN {NoIdentifier, h}
     ELSE {h}

\* C12: the identifier extracted from a host is the one the rule gives:
\* port stripped, no tenant for loopback and reserved hosts, <name> for
\* <name>.localhost and <name>.<platformDomain>, the full host otherwise.
ExtractionFollowsRule ==
  (call.fn = "extractRestaurantIdentifier" /\ call.done)
    => call.result \in AllowedIdentifiers(call.arg)

(* ======================== properties: orders ========================== *)
\* the status state machine of the order store
Transitions ==
  {<<"pending", "confirmed">>, <<"pending", "cancelled">>,
   <<"confirmed", "preparing">>, <<"confirmed", "cancelled">>,
   <<"preparing", "ready">>, <<"ready", "completed">>}

\* request p leaves PUT /api/orders/:id/status in this step
StatusUpdateStep(p) == InContext(p) /\ req'[p].pc = "idle" /\ last'.op = "status"

\* C1: a status update changes the stored status only along the transitions
\* of the state machine; an update that reaches the order and asks for any
\* other change is answered INVALID_TRANSITION and changes nothing.
StatusFollowsStateMachine ==
  [][\A p \in Reqs : StatusUpdateStep(p) =>
       \A o \in OrderIds :
         /\ orders'[o].status # orders[o].status
              => <<orders[o].status, orders'[o].status>> \in Transitions
         /\ (o = last'.orderId /\ FindOrder(o, req[p].restaurant.id)
             /\ last'.status \notin {403, 500} /\ last'.requested \in validStatuses
             /\ <<orders[o].status, last'.requested>> \notin Transitions)
              => (last'.code = "INVALID_TRANSITION" /\ orders'[o] = orders[o])]_vars

\* C2: once an order is cancelled or completed no step changes its status.
TerminalStaysTerminal ==
  [][\A o \in OrderIds :
       orders[o].status \in {"cancelled", "completed"}
         => orders'[o].status = orders[o].status]_vars

\* C3: DELETE /api/orders/:id writes cancelled only over an order that is
\* pending at that moment; when it reaches an order in any other status it
\* answers NOT_CANCELABLE and the order stays as it is.
CancelOnlyWhenPending ==
  [][\A p \in Reqs :
       /\ (req[p].pc = "cancelling" /\ req'[p].pc = "idle" /\ dbUp)
            => IF orders[req[p].orderId].status = "pending"
                 THEN orders'[req[p].orderId].status = "cancelled"
                 ELSE last'.code = "NOT_CANCELABLE" /\ orders' = orders
       /\ (InContext(p) /\ req'[p].pc = "idle" /\ last'.op = "cancel"
           /\ last'.status \notin {403, 404, 500})
            => (last'.code = "NOT_CANCELABLE" /\ orders' = orders
                /\ orders[last'.orderId].status # "pending")]_vars

\* the order_items rows of order o
ItemsOf(o) == {r \in orderItems : r.orderId = o}

\* C4: every order row has one order_items row for each line of its cart, in
\* every state, also while its creation is running and after it failed.
OrderHasAllItems ==
  \A o \in OrderIds : orders[o].exists => Cardinality(ItemsOf(o)) = orders[o].cartSize

\* the menu items a cart line refers to
LineRefs(line) ==
  IF line.isCombo THEN uniqueSelectedItems(line)
  ELSE IF line.menuItemId # 0 THEN {line.menuItemId} ELSE {}
\* the menu items an order_items row refers to
RowRefs(row) ==
  IF row.itemName.type = "combo"
    THEN (Range(row.itemName.selectedItems) \cup Range(row.itemName.additionalItems)
            \cup {row.itemName.baseChoice}) \ {0}
    ELSE {row.menuItemId} \ {0}
Foreign(refs, restaurantId) ==
  \E m \in refs \cap MenuItemIds : MenuItem[m].restaurantId # restaurantId

\* C6: nothing is persisted for a cart that refers to a menu item of another
\* restaurant than the resolved one, as a regular line or inside a combo line:
\* no order row is created for it and no order_items row refers to such an item.
ForeignItemsRejected ==
  /\ \A p \in Reqs : req[p].pc = "items"
       => \A i \in DOMAIN req[p].cart :
            ~Foreign(LineRefs(req[p].cart[i]), orders[req[p].orderId].restaurantId)
  /\ \A r \in orderItems : ~Foreign(RowRefs(r), orders[r.orderId].restaurantId)

\* request p is answered in this step (its slot is free again)
Answered(p) == req[p].pc # "idle" /\ req'[p].pc = "idle"

\* C11: an order request that has no restaurant (no tenant in the host, tenant
\* not found, store unreachable) is answered by the middleware, 404 or 400,
\* before the route runs: its step writes no order and no order item, its
\* answer reports no catalog query, and no request is ever inside the order
\* routes without a restaurant.
NoTenantNoWork ==
  [][\A p \in Reqs :
       /\ (req[p].route = "orders" /\ req[p].restaurant = NoRestaurant /\ req'[p] # req[p]
           /\ req'[p].restaurant = NoRestaurant /\ req'[p].pc \notin {"refreshing", "querying", "ctx"})
            => /\ req'[p] = IdleReq
               /\ last'.code \in {"RESTAURANT_NOT_FOUND", "RESTAURANT_CONTEXT_REQUIRED"}
               /\ last'.status \in {400, 404}
               /\ ~last'.validated
               /\ orders' = orders /\ orderItems' = orderItems
       /\ req'[p].pc \in {"items", "emailing", "cancelling"}
            => req'[p].restaurant # NoRestaurant]_vars

\* witness C11: an order request without a restaurant was just turned away by
\* requireRestaurantContext and the order store is untouched
TurnedAway ==
  /\ last.op = "route" /\ last.code = "RESTAURANT_CONTEXT_REQUIRED"
  /\ orders = [o \in OrderIds |-> NoOrder] /\ orderItems = {}

\* a menu item id the catalog cannot serve: unknown, or off the menu
OffMenu(m) == m \notin MenuItemIds \/ ~MenuItem[m].isAvailable
\* a cart line with an unavailable regular item, an unknown combo type or an
\* unavailable combo sub-selection
Unservable(line) ==
  IF line.isCombo
    THEN line.comboId \notin ComboTypeIds \/ \E m \in uniqueSelectedItems(line) : OffMenu(m)
    ELSE line.menuItemId # 0 /\ OffMenu(line.menuItemId)
\* the same, read from a written order_items row
RowUnservable(row) ==
  IF row.itemName.type = "combo"
    THEN row.itemName.comboId \notin ComboTypeIds
           \/ \E m \in uniqueSelectedItems(row.itemName) : OffMenu(m)
    ELSE row.menuItemId # 0 /\ OffMenu(row.menuItemId)
RejectionCodes == {"ITEMS_UNAVAILABLE", "COMBO_TYPE_UNAVAILABLE", "COMBO_ITEMS_UNAVAILABLE"}

\* C13: a cart with an unavailable regular item, an unavailable combo
\* sub-selection or an unknown combo type is rejected as a whole: the step that
\* answers the rejection writes no order, no order item and sends no e-mail,
\* and no such cart ever gets past validation into an order or a row
WholeCartRejection ==
  [][/\ \A p \in Reqs :
          (req[p].pc = "ctx" /\ req'[p] = IdleReq /\ last'.op = "order"
             /\ last'.code \in RejectionCodes)
            => orders' = orders /\ orderItems' = orderItems /\ last'.email = ""
     /\ \A p \in Reqs : req'[p].pc \in {"items", "emailing"}
          => \A i \in DOMAIN req'[p].cart : ~Unservable(req'[p].cart[i])
     /\ \A row \in orderItems' : ~RowUnservable(row)]_vars
RejectedWhole ==
  /\ last.op = "order" /\ last.code = "COMBO_ITEMS_UNAVAILABLE" /\ last.email = ""
  /\ orders = [o \in OrderIds |-> NoOrder] /\ orderItems = {}

\* C14: when the confirmation e-mail fails after the order and its items were
\* written, the create still answers 201 for that order, and the order row and
\* all its item rows stay as they were
NotificationFailureKeepsOrder ==
  [][\A p \in Reqs :
       (req[p].pc = "emailing" /\ req'[p] # req[p] /\ last'.email = "failed")
         => /\ last'.op = "order" /\ last'.status = 201 /\ last'.code = ""
            /\ last'.orderId = req[p].orderId
            /\ orders' = orders /\ orderItems' = orderItems
            /\ orders'[req[p].orderId].exists
            /\ Cardinality({row \in orderItems' : row.orderId = req[p].orderId})
                 = orders'[req[p].orderId].cartSize]_vars
CreatedDespiteFailedEmail ==
  /\ last.op = "order" /\ last.email = "failed" /\ last.status = 201
  /\ orders[last.orderId].exists
  /\ Cardinality({row \in orderItems : row.orderId = last.orderId}) = orders[last.orderId].cartSize

\* the same ids, each as often, in any order
SameIds(x, y) ==
  /\ Len(x) = Len(y)
  /\ \A v \in Range(x) \cup Range(y) :
       Cardinality({i \in DOMAIN x : x[i] = v}) = Cardinality({i \in DOMAIN y : y[i] = v})

\* C18: a combo line stored in item_name and parsed on re-read is a combo with
\* the combo type id, the selected ids, the additional ids (both in any order)
\* and the base choice that were submitted
ComboRoundTrip ==
  (call.fn = "parseOrderItem" /\ call.done /\ call.arg.isCombo)
    => /\ call.result.isCombo
       /\ call.result.comboData.comboId = call.arg.comboId
       /\ SameIds(call.result.comboData.selectedItems, call.arg.selectedItems)
       /\ SameIds(call.result.comboData.additionalItems, call.arg.additionalItems)
       /\ call.result.comboData.baseChoice = call.arg.baseChoice
ComboReadBack ==
  /\ call.fn = "parseOrderItem" /\ call.done /\ call.arg.isCombo
  /\ call.result.isCombo
  /\ call.arg.baseChoice = 1 /\ Len(call.arg.selectedItems) = 2
  /\ call.arg.additionalItems = <<2>>

\* C19: two combo types of the group 3, 4, 5, 6, 7 offer the same selectable
\* entrees (those of combo type 3) and the order validation accepts the same
\* entree ids for a line of either
ComboEquivalence ==
  (call.fn = "validate" /\ call.done)
    => /\ call.result.selectable[1] = call.result.selectable[2]
       /\ call.result.accepted[1] = call.result.accepted[2]
EquivalentCombos ==
  /\ call.fn = "validate" /\ call.done
  /\ call.arg.ids = <<3, 4>>
  /\ <<3, 1>> \in call.arg.table /\ <<4, 1>> \notin call.arg.table
  /\ 1 \in call.result.selectable[2] /\ 1 \in call.result.accepted[2]

\* C26: the regular lines of a cart are accepted exactly when the batched query
\* (ids of the cart, this restaurant, available) returns as many rows as the
\* cart names distinct menu item ids; the same item on two lines is accepted
DistinctIdsCounted ==
  (call.fn = "regularItems" /\ call.done)
    => LET ids == {call.arg.items[i].menuItemId : i \in regularItems(call.arg.items)}
       IN call.result
            = (Cardinality(AvailableInRestaurant(ids, call.arg.restaurantId)) = Cardinality(ids))

\* C29: every line persisted as a regular order item went through the
\* restaurant-scoped availability check: it names a menu item, and that item
\* is available and belongs to the order's restaurant; a line that is no combo
\* and names no menu item is never persisted
PersistedLinesValidated ==
  \A row \in orderItems :
    row.itemName.type # "combo"
      => /\ row.menuItemId # 0
         /\ row.menuItemId \in
              AvailableInRestaurant({row.menuItemId}, orders[row.orderId].restaurantId)

\* C20: no two persisted orders have the same order number, and a create whose
\* generated number is already taken fails with ORDER_NUMBER_COLLISION, an
\* outcome distinct from the generic failure of the handler
OrderNumberCollision ==
  /\ \A o1, o2 \in OrderIds :
       (orders[o1].exists /\ orders[o2].exists /\ o1 # o2)
         => orders[o1].orderNumber # orders[o2].orderNumber
  /\ (last.op = "order" /\ last.why = "collision")
       => last.code = "ORDER_NUMBER_COLLISION" /\ last.code # "SERVER_ERROR"

\* the catalog's unit price of what a written row names: the menu price, or
\* basePrice plus additionalItemPrice (null as 0) for each additional item
CatalogUnitPrice(row) ==
  IF row.itemName.type = "combo"
    THEN ComboType[row.itemName.comboId].basePrice
           + Len(row.itemName.additionalItems) * ComboType[row.itemName.comboId].additionalItemPrice
    ELSE MenuItem[row.menuItemId].price
RECURSIVE CatalogSum(_)
CatalogSum(rows) ==
  IF rows = {} THEN 0
  ELSE LET row == CHOOSE r \in rows : TRUE
       IN CatalogUnitPrice(row) * row.quantity + CatalogSum(rows \ {row})

\* C16: prices come from the catalog alone: every written order item carries
\* the catalog's unit price, and the subtotal of an order whose items are all
\* written is the sum of catalog unit price times quantity over its items,
\* whatever prices and subtotal the client declared
PricedFromCatalog ==
  /\ \A row \in orderItems : row.price = CatalogUnitPrice(row)
  /\ \A o \in OrderIds :
       (orders[o].exists
          /\ Cardinality({row \in orderItems : row.orderId = o}) = orders[o].cartSize)
         => orders[o].totals.subtotal = CatalogSum({row \in orderItems : row.orderId = o})

\* C17: every persisted order satisfies subtotal + tax + deliveryFee = total in
\* cents; a request whose amounts do not add up is rejected and leaves no order
TotalsAddUp ==
  \A o \in OrderIds : orders[o].exists
    => orders[o].totals.subtotal + orders[o].totals.tax + orders[o].totals.deliveryFee
         = orders[o].totals.total

\* C15: the notification is fire-and-forget: the step in which the order and
\* all its items are known to be written and the notification is started also
\* answers 201 for the order; the handler does not hold the response until the
\* notification has settled
FireAndForget ==
  [][\A p \in Reqs :
       (req[p].pc = "items" /\ req'[p].pc = "emailing")
         => last'.op = "order" /\ last'.status = 201 /\ last'.orderId = req[p].orderId]_vars

ForeignOrderStep(p) ==
  /\ req[p].pc \in {"ctx", "cancelling"} /\ req[p].restaurant # NoRestaurant
  /\ req'[p] = IdleReq
  /\ last'.op \in {"read", "status", "cancel"}
  /\ last'.orderId \in OrderIds
  /\ orders[last'.orderId].exists
  /\ orders[last'.orderId].restaurantId # req[p].restaurant.id

\* C23: a read, status update or cancel under one restaurant's context for an
\* order of another restaurant leaves the order and its items unchanged and is
\* answered 404 order not found (a status update that the admin check or the
\* status check turned away before the lookup is answered 403 or 400)
OrdersIsolatedByTenant ==
  [][\A p \in Reqs : ForeignOrderStep(p) =>
       /\ orders' = orders /\ orderItems' = orderItems
       /\ \/ last'.status = 404 /\ last'.code = "ORDER_NOT_FOUND"
          \/ last'.op = "status" /\ last'.code \in {"ACCESS_DENIED", "INVALID_STATUS"}]_vars
ForeignOrderNotFound ==
  /\ last.op = "status" /\ last.code = "ORDER_NOT_FOUND" /\ last.requested = "confirmed"
  /\ orders[last.orderId].exists /\ orders[last.orderId].status = "pending"

(* ====================== properties: administration ==================== *)
\* C21: a restaurant that has at least one order is never removed from the
\* directory: whatever the force parameter, a step leaves its row as it was
\* or only sets isActive to false
NeverDeletedWithOrders ==
  [][\A id \in TenantIds :
       (directory[id].exists /\ OrderCount(id) > 0)
         => \/ directory'[id] = directory[id]
            \/ directory'[id] = [directory[id] EXCEPT !.isActive = FALSE]]_vars

(* ===================== properties: tenant resolver ==================== *)
Owners(identifier) ==
  {t \in TenantIds : directory[t].exists
                     /\ (directory[t].slug = identifier \/ directory[t].domain = identifier)}

\* C5: a resolve that ran with no tenant mutation in flight and returned a
\* record never returns the record of a tenant other than the one that owns
\* the resolved identifier (short name or custom domain) in the directory.
TenantIsolation ==
  (last.op = "resolve" /\ last.restaurant # NoRestaurant /\ ~last.overlap)
    => \A t \in Owners(last.identifier) : last.restaurant.id = t

\* a step of POST, PUT or DELETE /api/restaurants that changed the directory
IsMutation == used'["mutation"] # used["mutation"]

\* C7: every tenant mutation (create, update, deactivate, delete) leaves the
\* cache empty and the last-refresh timestamp reset, and a resolve that starts
\* on the invalidated cache begins with a full reload from the directory.
EveryMutationInvalidates ==
  [][/\ IsMutation => (restaurantCache' = EmptyCache /\ cacheLastUpdated' = 0)
     /\ \A p \in Reqs :
          (req[p].pc = "idle" /\ req'[p].pc # "idle" /\ req'[p].identifier # ""
           /\ restaurantCache = EmptyCache /\ cacheLastUpdated = 0)
            => (req'[p].pc = "refreshing" /\ req'[p].queries = 1)]_vars

\* C8: a second resolve of a host within the TTL window, with no tenant
\* mutation since the first, returns the record the first returned and issues
\* no directory query.
IdempotentResolve ==
  /\ (last.op = "resolve" /\ last.twice)
       => (last.restaurant = last.prev /\ last.queries = 0)
  /\ \A p \in Reqs : req[p].twice => req[p].queries = 0

\* C24: a lookup that starts when the cache is empty or its age (now minus the
\* last refresh) is at least the TTL begins with a full refresh; in particular
\* at an age of exactly the TTL
RefreshAtTtl ==
  [][\A p \in Reqs :
       (req[p].pc = "idle" /\ req'[p] # req[p] /\ req'[p].route # ""
          /\ req'[p].identifier # "" /\ req'[p].pc # "adminRefresh"
          /\ (now - cacheLastUpdated >= CACHE_DURATION \/ CacheSize(restaurantCache) = 0))
         => req'[p].pc = "refreshing" /\ req'[p].queries = 1]_vars

\* the keys a record is cached under, and the map that holds exactly `rows`
KeysOf(r) == {r.slug} \cup (IF r.domain # NoDomain THEN {r.domain} ELSE {})
FullMap(rows) ==
  [k \in Keys |-> IF \E r \in rows : k \in KeysOf(r)
                    THEN CHOOSE r \in rows : k \in KeysOf(r)
                    ELSE NoRestaurant]

InvalidationNotUndone ==
  (last.op = "resolve" /\ last.restaurant # NoRestaurant /\ ~last.overlap)
    => /\ directory[last.restaurant.id].exists
       /\ directory[last.restaurant.id].isActive
       /\ Rec(last.restaurant.id) = last.restaurant
       /\ last.identifier \in KeysOf(last.restaurant)

\* C28: every record put into the cache, by a full refresh, a point lookup or
\* the creation of a restaurant, is an active row of the directory at the
\* moment it is put in; a restaurant created inactive is not cached
InsertedWhileActive ==
  [][\A k \in Keys :
       (restaurantCache'[k] # NoRestaurant /\ restaurantCache'[k] # restaurantCache[k])
         => /\ directory'[restaurantCache'[k].id].exists
            /\ directory'[restaurantCache'[k].id].isActive
            /\ directory'[restaurantCache'[k].id].slug = restaurantCache'[k].slug]_vars

\* restaurant t is in the directory and inactive
Deactivated(t) == directory[t].exists /\ ~directory[t].isActive
\* the hosts of restaurant t: its slug and its custom domain
HostsOf(t) == {directory[t].slug, directory[t].domain} \ {NoDomain}
\* a resolve of a host of t that began after t was deactivated ran the full
\* refresh and the point query and returned NotFound
RefreshedSince(t) ==
  /\ Deactivated(t)
  /\ last.op = "resolve" /\ last.identifier \in HostsOf(t) /\ ~last.overlap
  /\ last.restaurant = NoRestaurant /\ last.why = "absent" /\ last.queries = 2
\* a resolve of a host of t that began after t was deactivated returned t
ResolvedInactive(t) ==
  /\ Deactivated(t)
  /\ last.op = "resolve" /\ last.identifier \in HostsOf(t) /\ ~last.overlap
  /\ last.restaurant # NoRestaurant

\* C30: once a restaurant is deactivated and the refresh that follows has
\* completed, every resolve of its slug and of its custom domain returns
\* NotFound for as long as the restaurant stays inactive
DeactivationTakesEffect ==
  \A t \in TenantIds : [](RefreshedSince(t) => [](~ResolvedInactive(t)))

\* the step in which the failed findAll of request p is handled
FailedRefresh(p) ==
  req[p].pc \in {"refreshing", "adminRefresh"} /\ req[p].failed /\ req'[p].pc # req[p].pc

\* C9: a full refresh that fails leaves the cache and its timestamp as they
\* were and the request goes on: an identifier with a cached entry resolves
\* to that entry; with an empty cache and the store still unreachable the
\* request is answered 404.
FailedRefreshKeepsCache ==
  [][\A p \in Reqs : FailedRefresh(p) =>
       /\ restaurantCache' = restaurantCache
       /\ cacheLastUpdated' = cacheLastUpdated
       /\ (req[p].pc = "refreshing" /\ restaurantCache[req[p].identifier] # NoRestaurant)
            => /\ last'.op = "resolve" /\ last'.identifier = req[p].identifier
               /\ last'.restaurant = restaurantCache[req[p].identifier]
               /\ last'.status = 0
       /\ (req[p].pc = "refreshing" /\ restaurantCache = EmptyCache /\ ~dbUp)
            => (last'.op = "resolve" /\ last'.status = 404)]_vars

\* witness C9: a resolve just completed from the cache although its refresh
\* failed (the timestamp is still expired)
ServedStale ==
  /\ last.op = "resolve" /\ last.restaurant # NoRestaurant
  /\ last.queries = 1 /\ last.at = now
  /\ cacheLastUpdated # 0 /\ now - cacheLastUpdated > CACHE_DURATION

\* C10: a lookup that cannot reach the store is reported with an outcome that
\* differs from the NotFound outcome of a host without a tenant record.
UnreachableIsNotNotFound ==
  (last.op = "resolve" /\ last.why = "unreachable")
    => ~(last.status = 404 /\ last.code = "RESTAURANT_NOT_FOUND")

====
